---- MODULE Spec2Model ----
(***************************************************************************)
(* ScriptSignal<Parameters...> of Source/CPPScriptSignal.hpp: a vector of  *)
(* listener functions, a vector of Connection objects whose Destroy        *)
(* closure erases a captured position, and the Fire / Wait handshake over  *)
(* the mutex Current, the condition variable Condition and the flag Idle.  *)
(*                                                                         *)
(* Threads call Connect, Disconnect, Fire and Wait on one signal, from     *)
(* caller code (no listener calls back into the signal).  Connect and      *)
(* Connection::Disconnect are one step each; Fire and Wait are split       *)
(* at the points where other threads can interleave (each listener call,   *)
(* the lock, the wake-up, the unlock, the block on the condition).         *)
(* A thread's program counter is named after the source line it is about   *)
(* to execute.                                                             *)
(*                                                                         *)
(* Also modelled: the destructor, the main of Examples/Threads.cpp as a    *)
(* fixed order of calls, and the busy-spin Fire / Wait of                  *)
(* Source/CPPScriptSignal-old.hpp (the Old... actions).                    *)
(***************************************************************************)
EXTENDS Integers, Sequences, FiniteSets, TLC

\* ------------------------------------------------------------------ bounds
\* the threads that use the whole interface
NumCallers == 2
\* Connect calls on a signal used by one thread / shared by the threads
MaxConnect == 3
MaxShared == 2

Callers == 1..NumCallers
\* one more thread, which only ever waits
Waiter == NumCallers + 1
Threads == Callers \cup {Waiter}
MainThread == 1
\* the thread main starts in Threads.cpp
Spawned == 2
\* the callables a caller may register and the payloads a caller may fire
Callables == {"A", "B"}
Payloads == {"Blue", "Purple"}
NoArg == "-"

VARIABLES
    Functions,    \* std::vector<f_(Parameters...)>: <<[fn, reg]>>; reg is the
                  \* number of the Connect call that pushed the entry (ghost)
    Connections,  \* std::vector<Connection*>: <<[Index, isConnected]>>
    Idle,         \* bool Idle
    Current,      \* std::mutex Current: the thread holding it, 0 when free
    pc,           \* per thread: the line it is about to execute ("Fire_loop":
                  \* the range-for's test and advance; "Wait_blocked",
                  \* "Wait_woken": inside Condition.wait)
    arg,          \* per thread: Fire's Arguments
    it,           \* per thread: the range-for's current position (1-based)
    end,          \* per thread: the range-for's end position, 0 = dangling
    called,       \* per thread: the listener calls of the Fire in progress
    pend,         \* per thread: its store Idle = false has not landed yet
    woke,         \* per thread in Wait: the wake-up steps since its reset
    aborted,      \* the process was ended by undefined behaviour
    todo,         \* per thread: the calls its caller code still makes, in
                  \* order; <<AnyCall>> for caller code that makes any call
    heap,         \* per Connection created by new (line 157): the number of
                  \* times it has been deleted
    last          \* the call that made the last step, when it is a Connect,
                  \* a Disconnect (br: isConnected as line 76 read it), a
                  \* Fire of nothing or a listener's throw (c: its position):
                  \* [op, c, br]; op = "-" for other steps

vars == <<Functions, Connections, Idle, Current, pc, arg, it, end, called,
          pend, woke, aborted, todo, heap, last>>

\* ------------------------------------------------------------------ helpers
\* std::vector::erase(begin() + i - 1) for a position inside the vector
EraseAt(s, i) == [k \in 1..(Len(s) - 1) |-> IF k < i THEN s[k] ELSE s[k + 1]]

Step(op, c, br) == [op |-> op, c |-> c, br |-> br]
Quiet == Step("-", 0, FALSE)

\* the threads whose range-for over Functions is in progress
InLoop(t) == pc[t] \in {"Fire_loop", "Fire_188"}

\* a thread that is in caller code can make a call
CanCall(t) == ~aborted /\ pc[t] = "ready"

\* the caller code of thread t makes the call op next
AnyCall == "*"
Calls(t, op) == CanCall(t) /\ todo[t] # <<>> /\ Head(todo[t]) \in {AnyCall, op}
Called(t) == [todo EXCEPT ![t] = IF Head(@) = AnyCall THEN @ ELSE Tail(@)]

ResetLocals(t) ==
    /\ arg' = [arg EXCEPT ![t] = NoArg]
    /\ it' = [it EXCEPT ![t] = 0]
    /\ end' = [end EXCEPT ![t] = 0]
    /\ called' = [called EXCEPT ![t] = <<>>]

\* the signal as its implicit constructor leaves it
Constructed ==
    /\ Functions = <<>>
    /\ Connections = <<>>
    /\ Idle = FALSE
    /\ Current = 0
    /\ pc = [t \in Threads |-> "ready"]
    /\ arg = [t \in Threads |-> NoArg]
    /\ it = [t \in Threads |-> 0]
    /\ end = [t \in Threads |-> 0]
    /\ called = [t \in Threads |-> <<>>]
    /\ pend = [t \in Threads |-> FALSE]
    /\ woke = [t \in Threads |-> "no"]
    /\ aborted = FALSE
    /\ heap = <<>>
    /\ last = Quiet

Init ==
    /\ Constructed
    /\ todo = [t \in Threads |-> <<AnyCall>>]

\* ------------------------------------------------------------------ Connect
\* push_back on a vector another thread is iterating: when the vector
\* reallocates, every iterator into it dangles (end = 0).
Invalidate(realloc) ==
    [u \in Threads |-> IF realloc /\ InLoop(u) THEN 0 ELSE end[u]]

\* a Connection whose closure erases the first position
NewConnectionAtFront == [Index |-> 0, isConnected |-> TRUE]

NewConnection == [Index |-> Len(Functions), isConnected |-> TRUE]

\* Connect that registers a callable once only
ConnectOnce(t, f) ==
    /\ Calls(t, "Connect")
    /\ todo' = Called(t)
    /\ heap' = Append(heap, 0)
    /\ Functions' = IF \E i \in DOMAIN Functions : Functions[i].fn = f
                    THEN Functions
                    ELSE Append(Functions,
                                [fn |-> f, reg |-> Len(Connections) + 1])
    /\ Connections' = Append(Connections, NewConnection)
    /\ \E realloc \in BOOLEAN :
          /\ realloc => \E u \in Threads : InLoop(u)
          /\ end' = Invalidate(realloc)
    /\ last' = Step("Connect", Len(Connections) + 1, TRUE)
    /\ UNCHANGED <<pend, Idle, Current, pc, arg, it, called, woke, aborted>>

Connect(t, f) ==
    /\ Calls(t, "Connect")
    /\ todo' = Called(t)
    /\ heap' = Append(heap, 0)
    /\ Functions' = Append(Functions, [fn |-> f, reg |-> Len(Connections) + 1])
    /\ Connections' = Append(Connections, NewConnection)
    /\ \E realloc \in BOOLEAN :
          /\ realloc => \E u \in Threads : InLoop(u)
          /\ end' = Invalidate(realloc)
    /\ last' = Step("Connect", Len(Connections) + 1, TRUE)
    /\ UNCHANGED <<pend, Idle, Current, pc, arg, it, called, woke, aborted>>

\* --------------------------------------------------------------- Disconnect
\* The Destroy closure: Functions.erase(Functions.begin() + Index).  A
\* position at or past the end is undefined: the library's erase then drops
\* the last element (it moves nothing and destroys the element before the
\* end), or the process ends.
Destroy(c) ==
    LET Index == Connections[c].Index IN
    IF Index < Len(Functions)
    THEN /\ Functions' = EraseAt(Functions, Index + 1)
         /\ aborted' = FALSE
    ELSE \/ /\ Functions # <<>>
            /\ Functions' = SubSeq(Functions, 1, Len(Functions) - 1)
            /\ aborted' = FALSE
         \/ /\ Functions' = Functions
            /\ aborted' = TRUE

\* Disconnect without its test of isConnected
DisconnectBodyUnguarded(c) ==
    /\ Destroy(c)
    /\ Connections' = [Connections EXCEPT ![c].isConnected = FALSE]

DisconnectBody(c) ==
    IF Connections[c].isConnected
    THEN /\ Destroy(c)
         /\ Connections' = [Connections EXCEPT ![c].isConnected = FALSE]
    ELSE UNCHANGED <<Functions, Connections, aborted>>

Disconnect(t, c) ==
    /\ Calls(t, "Disconnect")
    /\ todo' = Called(t)
    /\ c \in DOMAIN Connections
    /\ DisconnectBody(c)
    /\ last' = Step("Disconnect", c, Connections[c].isConnected)
    /\ UNCHANGED <<heap, pend, Idle, Current, pc, arg, it, end, called, woke>>

\* --------------------------------------------------------------------- Fire
FireCall(t, a) ==
    /\ Calls(t, "Fire")
    /\ todo' = Called(t)
    /\ pc' = [pc EXCEPT ![t] = "Fire_183"]
    /\ arg' = [arg EXCEPT ![t] = a]
    /\ last' = Quiet
    /\ UNCHANGED <<heap, pend, Functions, Connections, Idle, Current, it, end,
                   called, woke, aborted>>

\* Fire without the early return of line 183
FireTestNoEmptyCheck(t) ==
    /\ ~aborted /\ pc[t] = "Fire_183"
    /\ pc' = [pc EXCEPT ![t] = "Fire_187"]
    /\ last' = IF Functions = <<>> THEN Step("FireEmpty", 0, TRUE) ELSE Quiet
    /\ UNCHANGED <<todo, heap, pend, Functions, Connections, Idle, Current,
                   arg, it, end, called, woke, aborted>>

\* if (Functions.empty()) return;
FireTest(t) ==
    /\ ~aborted /\ pc[t] = "Fire_183"
    /\ IF Functions = <<>>
       THEN /\ pc' = [pc EXCEPT ![t] = "ready"]
            /\ ResetLocals(t)
       ELSE /\ pc' = [pc EXCEPT ![t] = "Fire_187"]
            /\ UNCHANGED <<arg, it, end, called>>
    /\ last' = IF Functions = <<>> THEN Step("FireEmpty", 0, TRUE) ELSE Quiet
    /\ UNCHANGED <<todo, heap, pend, Functions, Connections, Idle, Current,
                   woke, aborted>>

\* Fire that goes to its wake-up before it has called the listeners
FireBeginWakesFirst(t) ==
    /\ ~aborted /\ pc[t] = "Fire_187"
    /\ pc' = [pc EXCEPT ![t] = "Fire_191"]
    /\ it' = [it EXCEPT ![t] = 1]
    /\ end' = [end EXCEPT ![t] = Len(Functions) + 1]
    /\ last' = Quiet
    /\ UNCHANGED <<todo, heap, pend, Functions, Connections, Idle, Current,
                   arg, called, woke, aborted>>

\* the range-for takes Functions.begin() and Functions.end() once
FireBegin(t) ==
    /\ ~aborted /\ pc[t] = "Fire_187"
    /\ pc' = [pc EXCEPT ![t] = "Fire_loop"]
    /\ it' = [it EXCEPT ![t] = 1]
    /\ end' = [end EXCEPT ![t] = Len(Functions) + 1]
    /\ last' = Quiet
    /\ UNCHANGED <<todo, heap, pend, Functions, Connections, Idle, Current,
                   arg, called, woke, aborted>>

\* an exception leaves Fire through its caller: nothing after line 188 runs
FireThrows(t, how) ==
    /\ pc' = [pc EXCEPT ![t] = "ready"]
    /\ ResetLocals(t)
    /\ last' = how
    /\ UNCHANGED <<todo, heap, pend, Functions, Connections, Idle, Current,
                   woke, aborted>>

FireAborts(t) ==
    /\ aborted' = TRUE
    /\ last' = Quiet
    /\ UNCHANGED <<todo, heap, pend, Functions, Connections, Idle, Current,
                   pc, arg, it, end, called, woke>>

\* one turn of for (const auto& Function : Functions): the loop test and the
\* call of the listener at the current position
FireLoop(t) ==
    /\ ~aborted /\ pc[t] = "Fire_loop"
    /\ IF end[t] # 0 /\ it[t] = end[t]
       THEN /\ pc' = [pc EXCEPT ![t] = "Fire_191"]
            /\ last' = Quiet
            /\ UNCHANGED <<todo, heap, pend, Functions, Connections, Idle,
                           Current, arg, it, end, called, woke, aborted>>
       ELSE IF end[t] # 0 /\ it[t] <= Len(Functions)
       THEN /\ pc' = [pc EXCEPT ![t] = "Fire_188"]
            /\ called' = [called EXCEPT ![t] =
                  Append(@, [reg |-> Functions[it[t]].reg,
                             fn |-> Functions[it[t]].fn,
                             arg |-> arg[t]])]
            /\ last' = Quiet
            /\ UNCHANGED <<todo, heap, pend, Functions, Connections, Idle,
                           Current, arg, it, end, woke, aborted>>
       \* a dangling iterator, or a slot past the vector's current end: the
       \* std::function there is moved-from or destroyed
       ELSE \/ FireThrows(t, Quiet)
            \/ FireAborts(t)

ListenerReturn(t) ==
    /\ ~aborted /\ pc[t] = "Fire_188"
    /\ pc' = [pc EXCEPT ![t] = "Fire_loop"]
    /\ it' = [it EXCEPT ![t] = @ + 1]
    /\ last' = Quiet
    /\ UNCHANGED <<todo, heap, pend, Functions, Connections, Idle, Current,
                   arg, end, called, woke, aborted>>

\* a Fire that catches a listener's failure and goes on with the next listener
ListenerThrowIsolated(t) ==
    /\ ~aborted /\ pc[t] = "Fire_188"
    /\ pc' = [pc EXCEPT ![t] = "Fire_loop"]
    /\ it' = [it EXCEPT ![t] = @ + 1]
    /\ last' = Step("Throw", it[t], TRUE)
    /\ UNCHANGED <<todo, heap, pend, Functions, Connections, Idle, Current,
                   arg, end, called, woke, aborted>>

\* the listener called at line 188 throws
ListenerThrow(t) ==
    /\ ~aborted /\ pc[t] = "Fire_188"
    /\ FireThrows(t, Step("Throw", it[t], TRUE))

\* std::lock_guard<std::mutex> Hold(Current)
FireLock(t) ==
    /\ ~aborted /\ pc[t] = "Fire_191"
    /\ Current = 0
    /\ Current' = t
    /\ pc' = [pc EXCEPT ![t] = "Fire_192"]
    /\ called' = [called EXCEPT ![t] = <<>>]
    /\ last' = Quiet
    /\ UNCHANGED <<todo, heap, pend, Functions, Connections, Idle, arg, it,
                   end, woke, aborted>>

InWait(u) == pc[u] \in {"Wait_211", "Wait_212", "Wait_blocked", "Wait_woken"}
Blocked == {u \in Threads : pc[u] = "Wait_blocked"}

\* what the wake-up step means to a thread that is inside Wait
Noted(u) ==
    IF pc[u] = "Wait_blocked"
    THEN IF Cardinality(Blocked) >= 2 THEN "group" ELSE "alone"
    ELSE IF InWait(u) THEN "early" ELSE woke[u]

\* Idle = true; Condition.notify_all();
FireNotify(t) ==
    /\ ~aborted /\ pc[t] = "Fire_192"
    /\ Idle' = TRUE
    /\ pc' = [u \in Threads |->
                IF u = t THEN "Fire_193"
                ELSE IF pc[u] = "Wait_blocked" THEN "Wait_woken" ELSE pc[u]]
    /\ woke' = [u \in Threads |-> Noted(u)]
    /\ last' = Quiet
    /\ UNCHANGED <<todo, heap, pend, Functions, Connections, Current, arg, it,
                   end, called, aborted>>

\* the lock_guard's destructor, and the return
FireReturn(t) ==
    /\ ~aborted /\ pc[t] = "Fire_193"
    /\ Current' = 0
    /\ pc' = [pc EXCEPT ![t] = "ready"]
    /\ ResetLocals(t)
    /\ last' = Quiet
    /\ UNCHANGED <<todo, heap, pend, Functions, Connections, Idle, woke,
                   aborted>>

\* --------------------------------------------------------------------- Wait
\* Idle = false; (line 208, no lock is held).  The store races with the
\* store of line 192 and with the other waiters' reads of line 212: it lands
\* at once, or at any later point up to this thread's next release of the
\* mutex (StoreLands, WaitPredicate).
\* Wait without the store of line 208
WaitResetKeepsIdle(t) ==
    /\ Calls(t, "Wait")
    /\ todo' = Called(t)
    /\ pc' = [pc EXCEPT ![t] = "Wait_211"]
    /\ woke' = [woke EXCEPT ![t] = "no"]
    /\ last' = Quiet
    /\ UNCHANGED <<heap, pend, Idle, Functions, Connections, Current, arg, it,
                   end, called, aborted>>

WaitReset(t) ==
    /\ Calls(t, "Wait")
    /\ todo' = Called(t)
    /\ \/ Idle' = FALSE /\ pend' = pend
       \/ Idle' = Idle /\ pend' = [pend EXCEPT ![t] = TRUE]
    /\ pc' = [pc EXCEPT ![t] = "Wait_211"]
    /\ woke' = [woke EXCEPT ![t] = "no"]
    /\ last' = Quiet
    /\ UNCHANGED <<heap, Functions, Connections, Current, arg, it, end,
                   called, aborted>>

StoreLands(t) ==
    /\ ~aborted /\ pend[t]
    /\ Idle' = FALSE
    /\ pend' = [pend EXCEPT ![t] = FALSE]
    /\ last' = Quiet
    /\ UNCHANGED <<todo, heap, Functions, Connections, Current, pc, arg, it,
                   end, called, woke, aborted>>

\* std::unique_lock Lock(Current)
WaitLock(t) ==
    /\ ~aborted /\ pc[t] = "Wait_211"
    /\ Current = 0
    /\ Current' = t
    /\ pc' = [pc EXCEPT ![t] = "Wait_212"]
    /\ last' = Quiet
    /\ UNCHANGED <<todo, heap, pend, Functions, Connections, Idle, arg, it,
                   end, called, woke, aborted>>

\* the value of Idle the thread reads: its own store when that is pending
ReadIdle(t) == IF pend[t] THEN FALSE ELSE Idle

\* Condition.wait(Lock, [this] { return Idle; }): one test of the predicate
\* under the lock; when it is false the thread releases the lock and blocks
WaitPredicate(t) ==
    /\ ~aborted /\ pc[t] = "Wait_212"
    /\ IF ReadIdle(t)
       THEN /\ pc' = [pc EXCEPT ![t] = "Wait_213"]
            /\ UNCHANGED <<Current, Idle, pend>>
       ELSE /\ pc' = [pc EXCEPT ![t] = "Wait_blocked"]
            /\ Current' = 0
            /\ Idle' = FALSE
            /\ pend' = [pend EXCEPT ![t] = FALSE]
    /\ last' = Quiet
    /\ UNCHANGED <<todo, heap, Functions, Connections, arg, it, end, called,
                   woke, aborted>>

\* a condition variable may wake without a notification
SpuriousWake(t) ==
    /\ ~aborted /\ pc[t] = "Wait_blocked"
    /\ pc' = [pc EXCEPT ![t] = "Wait_woken"]
    /\ last' = Quiet
    /\ UNCHANGED <<todo, heap, pend, Functions, Connections, Idle, Current,
                   arg, it, end, called, woke, aborted>>

\* a woken thread takes the lock again before it tests the predicate
WaitReacquire(t) ==
    /\ ~aborted /\ pc[t] = "Wait_woken"
    /\ Current = 0
    /\ Current' = t
    /\ pc' = [pc EXCEPT ![t] = "Wait_212"]
    /\ last' = Quiet
    /\ UNCHANGED <<todo, heap, pend, Functions, Connections, Idle, arg, it,
                   end, called, woke, aborted>>

\* return the elapsed time; the unique_lock's destructor unlocks
WaitReturn(t) ==
    /\ ~aborted /\ pc[t] = "Wait_213"
    /\ Current' = 0
    /\ pc' = [pc EXCEPT ![t] = "ready"]
    /\ last' = Quiet
    /\ woke' = [woke EXCEPT ![t] = "no"]
    /\ UNCHANGED <<todo, heap, pend, Functions, Connections, Idle, arg, it,
                   end, called, aborted>>

\* ------------------------------------------------------------ ~ScriptSignal
\* The signal is a local of main: it is destroyed when main returns.  The
\* destructor deletes every pointer of Connections; no thread calls the signal
\* afterwards.
\* a destructor that deletes only the connections still Connected
DestructorSkipsDisconnected(t) ==
    /\ Calls(t, "Return")
    /\ \A u \in Threads \ {t} : pc[u] = "ready"
    /\ heap' = [c \in DOMAIN heap |->
                  IF c \in DOMAIN Connections /\ Connections[c].isConnected
                  THEN heap[c] + 1 ELSE heap[c]]
    /\ todo' = [u \in Threads |-> <<>>]
    /\ last' = Step("Destroy", 0, TRUE)
    /\ UNCHANGED <<Functions, Connections, Idle, Current, pc, arg, it, end,
                   called, pend, woke, aborted>>

Destructor(t) ==
    /\ Calls(t, "Return")
    /\ \A u \in Threads \ {t} : pc[u] = "ready"
    /\ heap' = [c \in DOMAIN heap |->
                  IF c \in DOMAIN Connections THEN heap[c] + 1 ELSE heap[c]]
    /\ todo' = [u \in Threads |-> <<>>]
    /\ last' = Step("Destroy", 0, TRUE)
    /\ UNCHANGED <<Functions, Connections, Idle, Current, pc, arg, it, end,
                   called, pend, woke, aborted>>

\* -------------------------------------------------------------- Threads.cpp
\* std::thread Thread([&] { sleep_for(5000 ms); Welcome.Fire("Blue"); })
Spawn(t, u) ==
    /\ Calls(t, "Spawn")
    /\ todo[u] = <<>>
    /\ todo' = [Called(t) EXCEPT ![u] = <<"Fire">>]
    /\ last' = Quiet
    /\ UNCHANGED <<Functions, Connections, Idle, Current, pc, arg, it, end,
                   called, pend, woke, aborted, heap>>

\* .join(): returns when the thread's function has returned
Join(t, u) ==
    /\ Calls(t, "Join")
    /\ pc[u] = "ready" /\ todo[u] = <<>>
    /\ todo' = Called(t)
    /\ last' = Quiet
    /\ UNCHANGED <<Functions, Connections, Idle, Current, pc, arg, it, end,
                   called, pend, woke, aborted, heap>>

\* main's calls.  Lines 18-26 declare the thread and append .join() to the
\* declaration, which is not a statement the language accepts: the join is
\* read where the source puts it, before the Wait of line 29, or where the
\* comments of lines 21 and 31-35 put it, the thread running alongside Wait.
AsWritten == <<"Connect", "Spawn", "Join", "Wait", "Return">>
AsCommented == <<"Connect", "Spawn", "Wait", "Join", "Return">>

\* --------------------------------------------------- CPPScriptSignal-old.hpp
\* The busy-spin header: no mutex and no condition variable; Idle starts
\* true, Fire clears it while it calls the listeners and Wait polls it.
\* Functions is its vector of listeners (named Connections there),
\* Connections the Handler objects Connect has returned; program counters
\* are named after the lines of that header.
OldInit ==
    /\ Functions = <<>>
    /\ Connections = <<>>
    /\ Idle = TRUE
    /\ Current = 0
    /\ pc = [t \in Threads |-> "ready"]
    /\ arg = [t \in Threads |-> NoArg]
    /\ it = [t \in Threads |-> 0]
    /\ end = [t \in Threads |-> 0]
    /\ called = [t \in Threads |-> <<>>]
    /\ pend = [t \in Threads |-> FALSE]
    /\ woke = [t \in Threads |-> "no"]
    /\ aborted = FALSE
    /\ todo = [t \in Threads |-> <<AnyCall>>]
    /\ heap = <<>>
    /\ last = Quiet

\* Connections.push_back(Function); Index = Connections.size() - 1
OldConnect(t, f) ==
    /\ Calls(t, "Connect")
    /\ todo' = Called(t)
    /\ Functions' = Append(Functions, [fn |-> f, reg |-> Len(Connections) + 1])
    /\ Connections' = Append(Connections,
                             [Index |-> Len(Functions), isConnected |-> TRUE])
    /\ last' = Step("Connect", Len(Connections) + 1, TRUE)
    /\ UNCHANGED <<Idle, Current, pc, arg, it, end, called, pend, woke,
                   aborted, heap>>

OldFireCall(t, a) ==
    /\ Calls(t, "Fire")
    /\ todo' = Called(t)
    /\ pc' = [pc EXCEPT ![t] = "OldFire_61"]
    /\ arg' = [arg EXCEPT ![t] = a]
    /\ last' = Quiet
    /\ UNCHANGED <<Functions, Connections, Idle, Current, it, end, called,
                   pend, woke, aborted, heap>>

\* if (Connections.size() == 0) return;
OldFireTest(t) ==
    /\ pc[t] = "OldFire_61"
    /\ IF Functions = <<>>
       THEN /\ pc' = [pc EXCEPT ![t] = "ready"]
            /\ ResetLocals(t)
       ELSE /\ pc' = [pc EXCEPT ![t] = "OldFire_63"]
            /\ UNCHANGED <<arg, it, end, called>>
    /\ last' = IF Functions = <<>> THEN Step("FireEmpty", 0, TRUE) ELSE Quiet
    /\ UNCHANGED <<Functions, Connections, Idle, Current, pend, woke, aborted,
                   todo, heap>>

\* Idle = false; and the range-for's begin and end.  A thread that is polling
\* now has seen this Fire start (woke).
OldFireStart(t) ==
    /\ pc[t] = "OldFire_63"
    /\ Idle' = FALSE
    /\ pc' = [pc EXCEPT ![t] = "OldFire_64"]
    /\ it' = [it EXCEPT ![t] = 1]
    /\ end' = [end EXCEPT ![t] = Len(Functions) + 1]
    /\ woke' = [u \in Threads |->
                  IF pc[u] = "OldWait_53" THEN "started" ELSE woke[u]]
    /\ last' = Quiet
    /\ UNCHANGED <<Functions, Connections, Current, arg, called, pend,
                   aborted, todo, heap>>

\* for (auto const& Function : Connections) Function(Arguments...);
OldFireLoop(t) ==
    /\ pc[t] = "OldFire_64"
    /\ IF it[t] = end[t]
       THEN /\ pc' = [pc EXCEPT ![t] = "OldFire_67"]
            /\ UNCHANGED called
       ELSE /\ pc' = [pc EXCEPT ![t] = "OldFire_65"]
            /\ called' = [called EXCEPT ![t] =
                  Append(@, [reg |-> Functions[it[t]].reg,
                             fn |-> Functions[it[t]].fn,
                             arg |-> arg[t]])]
    /\ last' = Quiet
    /\ UNCHANGED <<Functions, Connections, Idle, Current, arg, it, end, pend,
                   woke, aborted, todo, heap>>

OldListenerReturn(t) ==
    /\ pc[t] = "OldFire_65"
    /\ pc' = [pc EXCEPT ![t] = "OldFire_64"]
    /\ it' = [it EXCEPT ![t] = @ + 1]
    /\ last' = Quiet
    /\ UNCHANGED <<Functions, Connections, Idle, Current, arg, end, called,
                   pend, woke, aborted, todo, heap>>

\* the listener throws: line 67 is not reached and Idle stays false
OldListenerThrow(t) ==
    /\ pc[t] = "OldFire_65"
    /\ pc' = [pc EXCEPT ![t] = "ready"]
    /\ ResetLocals(t)
    /\ last' = Step("Throw", it[t], TRUE)
    /\ UNCHANGED <<Functions, Connections, Idle, Current, pend, woke, aborted,
                   todo, heap>>

\* Idle = true; and the return
OldFireEnd(t) ==
    /\ pc[t] = "OldFire_67"
    /\ Idle' = TRUE
    /\ pc' = [pc EXCEPT ![t] = "ready"]
    /\ ResetLocals(t)
    /\ last' = Quiet
    /\ UNCHANGED <<Functions, Connections, Current, pend, woke, aborted, todo,
                   heap>>

\* the clock is read and the loop of line 53 entered
OldWaitCall(t) ==
    /\ Calls(t, "Wait")
    /\ todo' = Called(t)
    /\ pc' = [pc EXCEPT ![t] = "OldWait_53"]
    /\ woke' = [woke EXCEPT ![t] = "no"]
    /\ last' = Quiet
    /\ UNCHANGED <<Functions, Connections, Idle, Current, arg, it, end, called,
                   pend, aborted, heap>>

\* while (Idle) std::this_thread::yield(); one read of Idle: the thread
\* yields and reads again, or leaves the loop and returns the elapsed time
OldWaitPoll(t) ==
    /\ pc[t] = "OldWait_53"
    /\ IF Idle
       THEN UNCHANGED <<pc, woke>>
       ELSE /\ pc' = [pc EXCEPT ![t] = "ready"]
            /\ woke' = [woke EXCEPT ![t] = "no"]
    /\ last' = Quiet
    /\ UNCHANGED <<Functions, Connections, Idle, Current, arg, it, end, called,
                   pend, aborted, todo, heap>>

\* ----------------------------------------------------------- specifications
FireStep(t) ==
    \/ FireTest(t)
    \/ FireBegin(t)
    \/ FireLoop(t)
    \/ ListenerReturn(t)
    \/ ListenerThrow(t)
    \/ FireLock(t)
    \/ FireNotify(t)
    \/ FireReturn(t)

WaitStep(t) ==
    \/ WaitReset(t)
    \/ StoreLands(t)
    \/ WaitLock(t)
    \/ WaitPredicate(t)
    \/ SpuriousWake(t)
    \/ WaitReacquire(t)
    \/ WaitReturn(t)

\* The callers share one signal.  The handshake reads neither the callable
\* nor the payload, so they register one callable and fire one payload.
Next ==
    \E t \in Callers :
        \/ Len(Connections) < MaxShared /\ Connect(t, "A")
        \/ \E c \in DOMAIN Connections : Disconnect(t, c)
        \/ FireCall(t, "Blue")
        \/ FireStep(t)
        \/ WaitStep(t)

Spec == Init /\ [][Next]_vars

\* The callers, and the Waiter calling Wait again and again.
BroadcastNext ==
    \/ Next
    \/ WaitStep(Waiter)

BroadcastSpec == Init /\ [][BroadcastNext]_vars

\* Only the Waiter waits; the callers register and fire.
PairNext ==
    \/ WaitStep(Waiter)
    \/ \E t \in Callers :
          \/ Len(Connections) < MaxShared /\ Connect(t, "A")
          \/ FireCall(t, "Blue")
          \/ FireStep(t)

PairSpec == Init /\ [][PairNext]_vars

\* One thread registers, disconnects and fires, one call after the other
\* (General.cpp).
SeqNext ==
    \/ \E f \in Callables :
          Len(Connections) < MaxConnect /\ Connect(MainThread, f)
    \/ \E c \in DOMAIN Connections : Disconnect(MainThread, c)
    \/ \E a \in Payloads : FireCall(MainThread, a)
    \/ FireStep(MainThread)

SeqSpec == Init /\ [][SeqNext]_vars

\* The whole life of a signal: one thread registers, disconnects, fires and
\* in the end destroys it; the Waiter waits on it in the meantime.
LifeNext ==
    \/ SeqNext
    \/ WaitStep(Waiter)
    \/ Destructor(MainThread)

LifeSpec == Init /\ [][LifeNext]_vars

\* The busy-spin header: one thread registers and fires, the Waiter polls.
OldNext ==
    \/ \E f \in Callables :
          Len(Connections) < MaxConnect /\ OldConnect(MainThread, f)
    \/ \E a \in Payloads : OldFireCall(MainThread, a)
    \/ OldFireTest(MainThread)
    \/ OldFireStart(MainThread)
    \/ OldFireLoop(MainThread)
    \/ OldListenerReturn(MainThread)
    \/ OldListenerThrow(MainThread)
    \/ OldFireEnd(MainThread)
    \/ OldWaitCall(Waiter)
    \/ OldWaitPoll(Waiter)

OldSpec == OldInit /\ [][OldNext]_vars

\* Threads.cpp: main connects one listener, starts the thread that fires
\* "Blue", waits and returns.  The listener prints; it does not throw.
ExampleInit ==
    /\ Constructed
    /\ \E calls \in {AsWritten, AsCommented} :
          todo = [t \in Threads |-> IF t = MainThread THEN calls ELSE <<>>]

ExampleNext ==
    \/ Connect(MainThread, "A")
    \/ Spawn(MainThread, Spawned)
    \/ Join(MainThread, Spawned)
    \/ WaitStep(MainThread)
    \/ Destructor(MainThread)
    \/ FireCall(Spawned, "Blue")
    \/ FireTest(Spawned)
    \/ FireBegin(Spawned)
    \/ FireLoop(Spawned)
    \/ ListenerReturn(Spawned)
    \/ FireLock(Spawned)
    \/ FireNotify(Spawned)
    \/ FireReturn(Spawned)

ExampleSpec == ExampleInit /\ [][ExampleNext]_vars

\* ------------------------------------------------------------------- claims
\* the registration numbers of the entries of a dispatch sequence, in order
Regs(s) == [i \in DOMAIN s |-> s[i].reg]
\* the connections that are Connected, in the order of their registration
ConnectedRegs ==
    SelectSeq([c \in DOMAIN Connections |-> c],
              LAMBDA c : Connections[c].isConnected)
Without(s, c) == SelectSeq(s, LAMBDA e : e.reg # c)
Entries(c) == {i \in DOMAIN Functions : Functions[i].reg = c}

\* C1: a Disconnect of a Connected connection c leaves the entries of every
\* other connection in the dispatch sequence, in the same order: an entry of
\* another connection is there after the call if and only if it was before.
C1_DisconnectRemovesOnlyItsOwn ==
    [][\A c \in DOMAIN Connections :
          (last'.op = "Disconnect" /\ last'.c = c /\ Connections[c].isConnected)
              => Without(Functions', c) = Without(Functions, c)]_vars

\* C2: when a Fire has finished its loop, it has called the listeners of
\* exactly the Connected connections, once each, in registration order, each
\* with the Fire's arguments.
C2_FireCallsConnectedInOrder ==
    \A t \in Threads :
        (pc[t] = "Fire_191" /\ ~aborted) =>
            /\ Regs(called[t]) = ConnectedRegs
            /\ \A i \in DOMAIN called[t] : called[t][i].arg = arg[t]

\* C3: no Fire calls the listener of a connection that has been disconnected.
C3_NoCallAfterDisconnect ==
    [][\A t \in Threads :
          Len(called'[t]) = Len(called[t]) + 1
              => Connections[called'[t][Len(called'[t])].reg].isConnected]_vars

\* C4: a waiter that was blocked, together with another waiter, when a Fire
\* made its wake-up step does not block again: that one Fire releases it.
C4_BroadcastReleasesAll ==
    [][\A t \in Threads :
          (woke[t] = "group" /\ pc[t] # "Wait_blocked")
              => pc'[t] # "Wait_blocked"]_vars

\* C5: with one thread calling Wait and the others calling Connect and Fire,
\* once a Fire has made its wake-up step after the Wait's reset, the Wait
\* does not go on to block: the wake-up is not lost.
C5_WakeUpNotLost ==
    [][(woke[Waiter] # "no" /\ pc[Waiter] # "Wait_blocked")
          => pc'[Waiter] # "Wait_blocked"]_vars

\* C6: a Wait is released (its predicate found true) only when a Fire of a
\* non-empty dispatch sequence made its wake-up step after the Wait's reset.
C6_NoBufferedFire ==
    \A t \in Threads : pc[t] = "Wait_213" => woke[t] # "no"

C6_Witness ==
    \E t \in Threads :
        pc[t] = "Wait_213" /\ woke[t] = "alone"

\* C7: a Fire that finds the dispatch sequence empty returns at once: it
\* calls no listener, leaves Idle, the mutex, the vectors and every other
\* thread as they are, wakes nobody and counts as a wake-up for nobody.
C7_EmptyFireChangesNothing ==
    [][\A t \in Threads :
          (pc[t] = "Fire_183" /\ Functions = <<>> /\ pc'[t] # pc[t])
              => /\ pc'[t] = "ready"
                 /\ \A u \in Threads \ {t} : pc'[u] = pc[u]
                 /\ UNCHANGED <<Functions, Connections, Idle, Current, called,
                                pend, woke, aborted>>]_vars

C7_Witness ==
    /\ last.op = "FireEmpty"
    /\ \E u \in Threads : pc[u] = "Wait_blocked" /\ woke[u] = "no"
    /\ ~Idle

\* C8: a connection that is Disconnected stays Disconnected, and a Disconnect
\* of a Disconnected connection changes neither vector.
C8_DisconnectIdempotent ==
    [][/\ \A c \in DOMAIN Connections :
              ~Connections[c].isConnected => ~Connections'[c].isConnected
       /\ (last'.op = "Disconnect" /\ ~Connections[last'.c].isConnected)
              => UNCHANGED <<Functions, Connections>>]_vars

C8_Witness ==
    /\ last.op = "Disconnect" /\ ~last.br
    /\ Functions # <<>>
    /\ Connections[last.c].Index < Len(Functions)

\* C9: every Connected connection has exactly one entry in the dispatch
\* sequence, and a Disconnected connection has none.
C9_ParallelVectors ==
    ~aborted => \A c \in DOMAIN Connections :
        Cardinality(Entries(c)) = IF Connections[c].isConnected THEN 1 ELSE 0

\* a Fire that has made its first listener call and not yet ended its last
Dispatching(t) ==
    \/ pc[t] = "Fire_188"
    \/ pc[t] = "Fire_loop" /\ 1 < it[t] /\ it[t] # end[t]

\* C10: the dispatch sequence does not change while some Fire is between
\* its first and its last listener call.
C10_NoMutationDuringFire ==
    [][(\E t \in Threads : Dispatching(t)) => Functions' = Functions]_vars

\* C11: a Connect appends exactly one entry, the caller's callable, at the end
\* of the dispatch sequence and leaves the entries before it as they were; it
\* adds one Connection, which no earlier call returned, and that Connection is
\* Connected; the connections before it are as they were.
C11_ConnectAppendsOne ==
    [][last'.op = "Connect" =>
          /\ Len(Functions') = Len(Functions) + 1
          /\ SubSeq(Functions', 1, Len(Functions)) = Functions
          /\ Functions'[Len(Functions')].reg = last'.c
          /\ Len(Connections') = Len(Connections) + 1
          /\ SubSeq(Connections', 1, Len(Connections)) = Connections
          /\ last'.c = Len(Connections')
          /\ last'.c \notin DOMAIN Connections
          /\ Connections'[last'.c].isConnected]_vars

\* the same callable connected twice: two entries, two Connected connections
C11_Witness ==
    /\ last.op = "Connect"
    /\ \E i, j \in DOMAIN Functions :
          /\ i < j /\ j = Len(Functions)
          /\ Functions[i].fn = Functions[j].fn
          /\ Functions[i].reg # Functions[j].reg
          /\ Connections[Functions[i].reg].isConnected
          /\ Connections[Functions[j].reg].isConnected

\* C12: when a listener called by a Fire fails, the Fire ends there and the
\* failure reaches its caller: the thread is back in caller code with no
\* further listener called, Idle and the mutex are as they were, no thread is
\* woken or counted as woken, every other thread is where it was, and the
\* dispatch sequence and the connections are unchanged.
C12_ListenerFailurePropagates ==
    [][\A t \in Threads :
          (pc[t] = "Fire_188" /\ pc'[t] # pc[t] /\ last'.op = "Throw")
              => /\ pc'[t] = "ready"
                 /\ called'[t] = <<>>
                 /\ \A u \in Threads \ {t} : pc'[u] = pc[u]
                 /\ UNCHANGED <<Functions, Connections, Idle, Current, pend,
                                woke, aborted>>]_vars

\* a listener has failed with a later listener still to call and a waiter
\* blocked
C12_Witness ==
    /\ last.op = "Throw"
    /\ last.c < Len(Functions)
    /\ ~Idle
    /\ \E u \in Threads : pc[u] = "Wait_blocked" /\ woke[u] = "no"

\* C13: in the Threads example, with the thread joined where the source
\* joins it, main is never left blocked in Wait with Idle false once the
\* thread has ended: no thread remains that could fire, so that Wait could
\* not return and main could not reach its return.
C13_ThreadsExampleTerminates ==
    ~ /\ todo[MainThread] = <<"Return">>
      /\ pc[MainThread] = "Wait_blocked"
      /\ ~Idle
      /\ pc[Spawned] = "ready" /\ todo[Spawned] = <<>>

\* C14: a Disconnect of a Connected connection erases a position inside the
\* dispatch sequence: the captured Index is smaller than the sequence's
\* length at the time of the call.
C14_EraseInsideBounds ==
    [][(last'.op = "Disconnect" /\ last'.br)
          => Connections[last'.c].Index < Len(Functions)]_vars

\* C15: within one Fire the wake-up comes last.  A Fire that is about to lock
\* has walked its whole range, one listener call for each position; Idle
\* becomes true, and a blocked thread is woken by another thread, only in the
\* step of a Fire at line 192 whose loop has ended; and from line 192 on that
\* Fire calls no listener and goes nowhere but back to its caller.
C15_WakeUpComesLast ==
    [][/\ \A t \in Threads :
              pc[t] = "Fire_191" =>
                  /\ end[t] # 0 /\ it[t] = end[t]
                  /\ Len(called[t]) = end[t] - 1
       /\ (\/ ~Idle /\ Idle'
           \/ \E u \in Threads :
                 /\ pc[u] = "Wait_blocked" /\ pc'[u] = "Wait_woken"
                 /\ \E t \in Threads \ {u} : pc'[t] # pc[t])
              => \E t \in Threads :
                    /\ pc[t] = "Fire_192" /\ pc'[t] = "Fire_193"
                    /\ end[t] # 0 /\ it[t] = end[t]
       /\ \A t \in Threads :
              pc[t] \in {"Fire_192", "Fire_193"} =>
                  /\ called'[t] = <<>>
                  /\ pc'[t] \in {pc[t], "Fire_193", "ready"}]_vars

\* a Fire of two listeners has just woken a blocked waiter
C15_Witness ==
    \E t \in Threads :
        /\ pc[t] = "Fire_193" /\ it[t] = 3 /\ end[t] = 3
        /\ Idle
        /\ \E u \in Threads : pc[u] = "Wait_woken" /\ woke[u] = "alone"

\* C16: a thread that writes Idle (line 208 in Wait, line 192 in Fire) or
\* reads it (the predicate of line 212) holds the mutex Current in that step.
C16_MutexGuardsIdle ==
    [][\A t \in Threads :
          (\/ pc[t] = "ready" /\ pc'[t] = "Wait_211"
           \/ pc[t] = "Fire_192" /\ pc'[t] = "Fire_193"
           \/ pc[t] = "Wait_212" /\ pc'[t] # pc[t])
              => Current = t]_vars

\* C17: a Disconnect of a Connected connection c, made while every connection
\* registered before c is still Connected, removes c's own entry and nothing
\* else, whichever connections registered after c have been disconnected; and
\* with two connections, the first disconnected and the second not, a Fire
\* calls the second connection's listener once, with its arguments, and no
\* other.
C17_InOrderDisconnectIsExact ==
    [][/\ \A c \in DOMAIN Connections :
              (/\ last'.op = "Disconnect" /\ last'.c = c
               /\ Connections[c].isConnected
               /\ \A b \in 1..(c - 1) : Connections[b].isConnected)
                  => /\ ~aborted'
                     /\ Len(Functions') = Len(Functions) - 1
                     /\ Functions' = Without(Functions, c)
       /\ \A t \in Threads :
              (/\ pc[t] = "Fire_191"
               /\ Len(Connections) = 2
               /\ ~Connections[1].isConnected
               /\ Connections[2].isConnected)
                  => /\ Len(called[t]) = 1
                     /\ called[t][1].reg = 2
                     /\ called[t][1].arg = arg[t]]_vars

\* B of A, B, C has been disconnected after C and before A
C17_Witness ==
    /\ last.op = "Disconnect" /\ last.br
    /\ 1 < last.c
    /\ \A b \in 1..(last.c - 1) : Connections[b].isConnected
    /\ \E d \in DOMAIN Connections : last.c < d /\ ~Connections[d].isConnected
    /\ Len(Functions) = last.c - 1

\* C18: the registry holds one entry for each Connection created and no
\* other: its length grows by one with a Connect and changes in no other
\* step; no Connection is deleted while the signal lives, and the destructor
\* leaves every Connection deleted exactly once.
C18_RegistryOwnsConnections ==
    [][/\ Len(Connections') =
              IF last'.op = "Connect" THEN Len(Connections) + 1
                                      ELSE Len(Connections)
       /\ Len(heap') = Len(Connections')
       /\ \A c \in DOMAIN heap' :
              heap'[c] = IF last'.op = "Destroy" THEN 1 ELSE 0]_vars

\* a signal destroyed with a Connected and a Disconnected connection
C18_Witness ==
    /\ last.op = "Destroy"
    /\ \E c, d \in DOMAIN Connections :
          Connections[c].isConnected /\ ~Connections[d].isConnected
    /\ \A c \in DOMAIN heap : heap[c] = 1

\* C19: in the busy-spin header, a Wait that was polling when a Fire of at
\* least one listener started does not outlast that Fire: when no Fire is
\* in progress, either that Wait has returned or Idle is false, so that its
\* next poll returns.  (Otherwise Idle is true again and stays true until a
\* further Fire: the Wait cannot return without one.)
C19_PollingWaitSeesFire ==
    \A u \in Threads :
        (/\ pc[u] = "OldWait_53" /\ woke[u] = "started"
         /\ \A t \in Threads \ {u} : pc[t] = "ready")
            => ~Idle

====
